---- MODULE Spec2Model ----
(***************************************************************************)
(* Model of the tabulation backend's score handlers                        *)
(* (src/src/handlers/score.rs, category.rs, judge.rs).                     *)
(*                                                                         *)
(* The Postgres tables are the state: each table is a sequence of rows in  *)
(* insertion order, and a row's id is its index.  Handlers are actions     *)
(* that read and write the tables and leave the HTTP response they return  *)
(* in `response`.                                                          *)
(*                                                                         *)
(* Representation of numbers: a category weight w is kept as the integer   *)
(* 1000*w (WeightScale), a weighted sum total*w as the integer             *)
(* 1000*total*w, and a value rounded to two decimals as the integer        *)
(* 100*value.  The quotient (S / M) * 100.0 is kept as an exact reduced    *)
(* fraction, or as the IEEE special value the division produces when M is  *)
(* zero.  Binary floating-point representation error is not modelled.      *)
(* Strings that the code builds (display names) are sequences of           *)
(* characters.                                                             *)
(***************************************************************************)
EXTENDS Integers, Sequences, FiniteSets, TLC

VARIABLES
    categories,   \* table categories: seq of [name, weight, event_id]
    criterias,    \* table criterias:  seq of [name, category_id]
    judges,       \* table judges:     seq of [name, is_active, event_id]
    candidates,   \* table candidates: seq of [first_name, middle_name, last_name, candidate_number, gender]
    scores,       \* table scores:     seq of Score rows
    now,          \* the clock that stamps time_of_scoring
    response      \* what the last handler returned

vars == <<categories, criterias, judges, candidates, scores, now, response>>

----------------------------------------------------------------------------
(* Bounds *)

MaxScores == 2
MaxClock == 3
NumCandidates == 2

Events == {1, 2}
ScoreValues == {0, 1, 2}
Weights == {0, 333, 500}

WeightScale == 1000

None == [op |-> "none"]

----------------------------------------------------------------------------
(* Generic helpers *)

RECURSIVE SumOver(_, _)
\* Sum of f[x] over the finite set S.
SumOver(S, f) ==
    IF S = {} THEN 0
    ELSE LET x == CHOOSE y \in S : TRUE
         IN  f[x] + SumOver(S \ {x}, f)

Abs(x) == IF x < 0 THEN -x ELSE x

RECURSIVE Gcd(_, _)
Gcd(a, b) == IF b = 0 THEN a ELSE Gcd(b, a % b)

\* All orderings (sequences without repetition) of the finite set S.
Orderings(S) ==
    { s \in [1..Cardinality(S) -> S] : \A i, j \in DOMAIN s : i # j => s[i] # s[j] }

----------------------------------------------------------------------------
(* Tables after event setup *)

\* Candidate names: candidate 1 has an empty middle name.
FirstName(i)  == <<"F", CHOOSE d \in {"1", "2", "3", "4"} : d = ToString(i)>>
MiddleName(i) == IF i % 2 = 1 THEN << >> ELSE <<"M">>
LastName(i)   == <<"L", CHOOSE d \in {"1", "2", "3", "4"} : d = ToString(i)>>

CandidateRow(i, g) ==
    [ first_name |-> FirstName(i), middle_name |-> MiddleName(i),
      last_name |-> LastName(i),
      candidate_number |-> NumCandidates + 1 - i, gender |-> g ]

CategoryName(i) == IF i % 2 = 1 THEN "Swimwear" ELSE "Q&A"
JudgeName(i)    == IF i % 2 = 1 THEN "Judge A" ELSE "Judge B"

\* A categories row; is_active is the column update_category sets.
CategoryRow(i, w, e) ==
    [ name |-> CategoryName(i), weight |-> w, event_id |-> e, is_active |-> FALSE ]
CriteriaRow(c) == [ name |-> "Criteria", category_id |-> c ]
JudgeRow(i, a, e) == [ name |-> JudgeName(i), is_active |-> a, event_id |-> e ]

\* The candidates table: genders alternate unless a specification varies them.
CandidateTable == [ i \in 1..NumCandidates |-> CandidateRow(i, IF i % 2 = 1 THEN 1 ELSE 2) ]

TypeOK ==
    /\ now \in 0..MaxClock
    /\ Len(scores) <= MaxScores
    /\ \A i \in DOMAIN scores :
          /\ scores[i].id = i
          /\ scores[i].candidate_id \in DOMAIN candidates
          /\ scores[i].category_id \in DOMAIN categories
          /\ scores[i].criteria_id \in DOMAIN criterias
          /\ scores[i].judge_id \in DOMAIN judges

----------------------------------------------------------------------------
(* submit_score, update_score *)

CreateScore ==
    [ score : ScoreValues, max : ScoreValues,
      candidate_id : DOMAIN candidates, criteria_id : DOMAIN criterias,
      category_id : DOMAIN categories, judge_id : DOMAIN judges ]

\* INSERT INTO scores (...) VALUES ($1..$6) RETURNING *
InsertedRow(payload) ==
    [ id |-> Len(scores) + 1,
      score |-> payload.score,
      max |-> payload.max,
      time_of_scoring |-> now,
      candidate_id |-> payload.candidate_id,
      criteria_id |-> payload.criteria_id,
      category_id |-> payload.category_id,
      judge_id |-> payload.judge_id ]

submit_score(payload, dbOk) ==
    /\ Len(scores) < MaxScores
    /\ now < MaxClock
    /\ IF dbOk
       THEN /\ scores' = Append(scores, InsertedRow(payload))
            /\ now' = now + 1
            /\ response' = [ op |-> "submit_score", status |-> 201,
                             body |-> InsertedRow(payload) ]
       ELSE /\ UNCHANGED <<scores, now>>
            /\ response' = [ op |-> "submit_score", status |-> 500 ]
    /\ UNCHANGED <<categories, criterias, judges, candidates>>

UpdateScore == [ score_id : 1..MaxScores, score : ScoreValues ]

\* Variant: an UPDATE that also overwrites max.
UpdatedRowDropsMax(row, payload) ==
    [ row EXCEPT !.score = payload.score, !.time_of_scoring = now,
                 !.max = payload.score ]

\* UPDATE scores SET score = ($1), time_of_scoring = ($2)
UpdatedRow(row, payload) ==
    [ row EXCEPT !.score = payload.score, !.time_of_scoring = now ]

\* ... WHERE id = ($3) RETURNING *
UpdatedScores(payload) ==
    [ i \in DOMAIN scores |->
        IF scores[i].id = payload.score_id
        THEN UpdatedRow(scores[i], payload)
        ELSE scores[i] ]

update_score(payload, dbOk) ==
    /\ now < MaxClock
    /\ IF dbOk /\ \E i \in DOMAIN scores : scores[i].id = payload.score_id
       THEN /\ scores' = UpdatedScores(payload)
            /\ now' = now + 1
            /\ response' = [ op |-> "update_score", status |-> 201,
                             body |-> UpdatedScores(payload)[payload.score_id] ]
       ELSE \* fetch_one: no row returned, or the query failed
            /\ UNCHANGED <<scores, now>>
            /\ response' = [ op |-> "update_score", status |-> 500 ]
    /\ UNCHANGED <<categories, criterias, judges, candidates>>

----------------------------------------------------------------------------
(* Specification of score entry: submit_score and update_score *)

InitScore ==
    /\ categories = << CategoryRow(1, 500, 1) >>
    /\ criterias = << CriteriaRow(1) >>
    /\ judges = << JudgeRow(1, TRUE, 1) >>
    /\ candidates = CandidateTable
    /\ scores = << >>
    /\ now = 0
    /\ response = None

NextScore ==
    \/ \E p \in CreateScore, ok \in BOOLEAN : submit_score(p, ok)
    \/ \E p \in UpdateScore, ok \in BOOLEAN : update_score(p, ok)

SpecScore == InitScore /\ [][NextScore]_vars

\* C9: after any sequence of submit_score and update_score calls, every Score
\* row in the store satisfies 0 <= score <= max.
C9_ScoreWithinMax ==
    \A i \in DOMAIN scores : 0 <= scores[i].score /\ scores[i].score <= scores[i].max

\* C10: a successful update_score changes only the addressed row's score and
\* time_of_scoring; its id, max and references are kept, every other row is
\* unchanged, and no row is added or removed.
C10_UpdateFrame ==
    [][ (response'.op = "update_score" /\ response'.status = 201 /\ now' # now) =>
          /\ DOMAIN scores' = DOMAIN scores
          /\ response'.body.id \in DOMAIN scores
          /\ \A i \in DOMAIN scores :
                IF i = response'.body.id
                THEN /\ scores'[i] = response'.body
                     /\ scores'[i].id = scores[i].id
                     /\ scores'[i].max = scores[i].max
                     /\ scores'[i].candidate_id = scores[i].candidate_id
                     /\ scores'[i].criteria_id = scores[i].criteria_id
                     /\ scores'[i].category_id = scores[i].category_id
                     /\ scores'[i].judge_id = scores[i].judge_id
                ELSE scores'[i] = scores[i] ]_vars

\* A second row was re-scored to a different value while another row exists.
C10_Witness ==
    /\ response.op = "update_score"
    /\ response.status = 201
    /\ Len(scores) = 2
    /\ response.body.id = 2
    /\ scores[2].score = 2
    /\ scores[2].time_of_scoring > scores[1].time_of_scoring + 1

----------------------------------------------------------------------------
(* get_candidate_final_scores, calculate_final_scores *)

Whitespace == {" "}

RECURSIVE TrimStart(_)
TrimStart(s) ==
    IF s # << >> /\ Head(s) \in Whitespace THEN TrimStart(Tail(s)) ELSE s

RECURSIVE TrimEnd(_)
TrimEnd(s) ==
    IF s # << >> /\ s[Len(s)] \in Whitespace
    THEN TrimEnd(SubSeq(s, 1, Len(s) - 1))
    ELSE s

\* str::trim
Trim(s) == TrimEnd(TrimStart(s))

\* format!("{}, {} {}", last_name, first_name, middle_name)
FormatName(last, first, middle) == last \o <<",", " ">> \o first \o <<" ">> \o middle

\* f64::round_to_two_decimals of x / WeightScale, as the integer 100 * result
\* (round half away from zero).
RoundToTwoDecimals(x) ==
    IF x >= 0
    THEN (x * 100 + WeightScale \div 2) \div WeightScale
    ELSE -((-x * 100 + WeightScale \div 2) \div WeightScale)

\* Variant: the operands of the division exchanged, (M / S) * 100.0.
QuotientOfMaxByScore(s, m) ==
    IF s = 0
    THEN IF m = 0 THEN [ kind |-> "NaN" ]
         ELSE [ kind |-> "inf", sign |-> IF m > 0 THEN 1 ELSE -1 ]
    ELSE LET n == 100 * m * (IF s < 0 THEN -1 ELSE 1)
             d == Abs(s)
             g == Gcd(Abs(n), d)
         IN  [ kind |-> "finite", num |-> n \div g, den |-> d \div g ]

\* (S / M) * 100.0 in f32: a finite quotient, or what IEEE division by zero gives.
Quotient(s, m) ==
    IF m = 0
    THEN IF s = 0 THEN [ kind |-> "NaN" ]
         ELSE [ kind |-> "inf", sign |-> IF s > 0 THEN 1 ELSE -1 ]
    ELSE LET n == 100 * s * (IF m < 0 THEN -1 ELSE 1)
             d == Abs(m)
             g == Gcd(Abs(n), d)
         IN  [ kind |-> "finite", num |-> n \div g, den |-> d \div g ]

\* FROM candidates c LEFT JOIN scores s ON s.candidate_id = c.id
\*   LEFT JOIN categories cat ON s.category_id = cat.id WHERE cat.event_id = ($1):
\* the score rows that survive the joins and the filter.
\* Variant: the joins without the WHERE cat.event_id = ($1) filter.
JoinedScoresAnyEvent(event_id) ==
    { i \in DOMAIN scores :
        /\ scores[i].candidate_id \in DOMAIN candidates
        /\ scores[i].category_id \in DOMAIN categories }

JoinedScores(event_id) ==
    { i \in DOMAIN scores :
        /\ scores[i].candidate_id \in DOMAIN candidates
        /\ scores[i].category_id \in DOMAIN categories
        /\ categories[scores[i].category_id].event_id = event_id }

\* GROUP BY c.id, cat.weight
GroupKey(i) == << scores[i].candidate_id, categories[scores[i].category_id].weight >>

GroupKeys(event_id) == { GroupKey(i) : i \in JoinedScores(event_id) }

\* One CandidateScore row of the query: the aggregates of one group.
CandidateScoreRow(event_id, k) ==
    LET members == { i \in JoinedScores(event_id) : GroupKey(i) = k }
        total_score == SumOver(members, [ i \in members |-> scores[i].score ])
        total_max == SumOver(members, [ i \in members |-> scores[i].max ])
        c == candidates[k[1]]
    IN  [ candidate_id |-> k[1],
          first_name |-> c.first_name,
          middle_name |-> c.middle_name,
          last_name |-> c.last_name,
          total_score |-> total_score,
          total_max |-> total_max,
          weighted_score |-> total_score * k[2],
          weighted_max |-> total_max * k[2] ]

\* ORDER BY c.candidate_number, c.gender (rows of one candidate: by weight)
RowBefore(a, b) ==
    LET ca == candidates[a[1]]
        cb == candidates[b[1]]
    IN  \/ ca.candidate_number < cb.candidate_number
        \/ /\ ca.candidate_number = cb.candidate_number
           /\ \/ ca.gender < cb.gender
              \/ ca.gender = cb.gender /\ a[1] < b[1]
              \/ ca.gender = cb.gender /\ a[1] = b[1] /\ a[2] <= b[2]

RECURSIVE OrderedKeys(_)
OrderedKeys(K) ==
    IF K = {} THEN << >>
    ELSE LET k == CHOOSE x \in K : \A y \in K : x = y \/ RowBefore(x, y)
         IN  <<k>> \o OrderedKeys(K \ {k})

\* The query's result: Vec<CandidateScore>.
CandidateScoreRows(event_id) ==
    LET keys == OrderedKeys(GroupKeys(event_id))
    IN  [ n \in DOMAIN keys |-> CandidateScoreRow(event_id, keys[n]) ]

\* candidate_scores.entry(id).or_insert((name, 0.0, 0.0)), then the two +=
AccumulateEntry(acc, row) ==
    LET name == Trim(FormatName(row.last_name, row.first_name, row.middle_name))
        old == IF row.candidate_id \in DOMAIN acc
               THEN acc[row.candidate_id]
               ELSE [ candidate_id |-> row.candidate_id, candidate_name |-> name,
                      weighted_scores_sum |-> 0, weighted_max_sum |-> 0 ]
    IN  [ c \in DOMAIN acc \cup {row.candidate_id} |->
            IF c = row.candidate_id
            THEN [ old EXCEPT
                     !.weighted_scores_sum = @ + RoundToTwoDecimals(row.weighted_score),
                     !.weighted_max_sum = @ + RoundToTwoDecimals(row.weighted_max) ]
            ELSE acc[c] ]

RECURSIVE AccumulateRows(_, _, _)
\* for score in scores { ... }
AccumulateRows(rows, n, acc) ==
    IF n > Len(rows) THEN acc
    ELSE AccumulateRows(rows, n + 1, AccumulateEntry(acc, rows[n]))

\* calculate_final_scores: the HashMap candidate_id -> (candidate_name, final_score)
calculate_final_scores(rows) ==
    LET candidate_scores == AccumulateRows(rows, 1, << >>)
    IN  [ c \in DOMAIN candidate_scores |->
            [ candidate_id |-> candidate_scores[c].candidate_id,
              candidate_name |-> candidate_scores[c].candidate_name,
              final_score |-> Quotient(candidate_scores[c].weighted_scores_sum,
                                       candidate_scores[c].weighted_max_sum) ] ]

\* The orders in which `for (candidate_id, ..) in final_scores` can visit the
\* HashMap (std RandomState: the order differs from one map to the next).
IterationOrders(keys) == Orderings(keys)

\* Variant: a read that also deletes the Score rows it has aggregated.
get_candidate_final_scores_consuming(event_id, dbOk) ==
    /\ IF dbOk
       THEN /\ \E order \in IterationOrders(DOMAIN calculate_final_scores(CandidateScoreRows(event_id))) :
                 response' =
                   [ op |-> "get_candidate_final_scores", status |-> 200,
                     event_id |-> event_id,
                     body |-> [ n \in DOMAIN order |->
                                  calculate_final_scores(CandidateScoreRows(event_id))[order[n]] ] ]
            /\ scores' = SelectSeq(scores, LAMBDA row : row.id \notin JoinedScores(event_id))
       ELSE /\ response' = [ op |-> "get_candidate_final_scores", status |-> 500,
                             event_id |-> event_id ]
            /\ UNCHANGED scores
    /\ UNCHANGED <<categories, criterias, judges, candidates, now>>

get_candidate_final_scores(event_id, dbOk) ==
    /\ IF dbOk
       THEN \E order \in IterationOrders(DOMAIN calculate_final_scores(CandidateScoreRows(event_id))) :
              response' =
                [ op |-> "get_candidate_final_scores", status |-> 200,
                  event_id |-> event_id,
                  body |-> [ n \in DOMAIN order |->
                               calculate_final_scores(CandidateScoreRows(event_id))[order[n]] ] ]
       ELSE response' = [ op |-> "get_candidate_final_scores", status |-> 500,
                          event_id |-> event_id ]
    /\ UNCHANGED <<categories, criterias, judges, candidates, scores, now>>

----------------------------------------------------------------------------
(* Specification of aggregation: scores are submitted and final scores read *)

InitAgg ==
    /\ \E w2 \in Weights, e2 \in Events :
          categories = << CategoryRow(1, 333, 1), CategoryRow(2, w2, e2) >>
    /\ criterias = << CriteriaRow(1) >>
    /\ judges = << JudgeRow(1, TRUE, 1) >>
    /\ candidates = CandidateTable
    /\ scores = << >>
    /\ now = 0
    /\ response = None

NextAgg ==
    \/ \E p \in CreateScore, ok \in BOOLEAN : submit_score(p, ok)
    \/ \E e \in Events, ok \in BOOLEAN : get_candidate_final_scores(e, ok)

SpecAgg == InitAgg /\ [][NextAgg]_vars

\* The same handlers on scores that are either 0 of 0 or 1 of 1: which
\* candidates the result lists does not depend on the score values.
EntryPayloads == { p \in CreateScore : p.score = p.max /\ p.max \in {0, 1} }

NextAggEntries ==
    \/ \E p \in EntryPayloads, ok \in BOOLEAN : submit_score(p, ok)
    \/ \E e \in Events, ok \in BOOLEAN : get_candidate_final_scores(e, ok)

SpecAggEntries == InitAgg /\ [][NextAggEntries]_vars

IsFinalOk(r) == r.op = "get_candidate_final_scores" /\ r.status = 200

\* The candidates that have at least one Score row in a category of the event.
ScoredCandidates(event_id) ==
    { c \in DOMAIN candidates :
        \E i \in DOMAIN scores :
            /\ scores[i].candidate_id = c
            /\ categories[scores[i].category_id].event_id = event_id }

\* C1: the result holds exactly one entry per distinct candidate that has at
\* least one Score row in a category of the event: no candidate id twice, no
\* candidate without Scores in the event.
C1_OneEntryPerScoredCandidate ==
    IsFinalOk(response) =>
        /\ \A m, n \in DOMAIN response.body :
              m # n => response.body[m].candidate_id # response.body[n].candidate_id
        /\ { response.body[n].candidate_id : n \in DOMAIN response.body }
              = ScoredCandidates(response.event_id)

\* One candidate appears once while having Score rows in two categories of the
\* event with different weights; the other candidate, never scored, is absent.
C1_Witness ==
    /\ IsFinalOk(response)
    /\ Len(scores) = 2
    /\ Len(response.body) = 1
    /\ \E i, j \in DOMAIN scores :
          /\ i # j
          /\ scores[i].candidate_id = response.body[1].candidate_id
          /\ scores[j].candidate_id = response.body[1].candidate_id
          /\ categories[scores[i].category_id].weight # categories[scores[j].category_id].weight
          /\ categories[scores[i].category_id].event_id = response.event_id
          /\ categories[scores[j].category_id].event_id = response.event_id

\* The final score as the specification computes it: one rounded term per
\* Category of the event in which the candidate has scores.
CategoriesScored(c, event_id) ==
    { k \in DOMAIN categories :
        /\ categories[k].event_id = event_id
        /\ \E i \in DOMAIN scores :
              scores[i].candidate_id = c /\ scores[i].category_id = k }

PairRows(c, k) ==
    { i \in DOMAIN scores : scores[i].candidate_id = c /\ scores[i].category_id = k }

PerCategoryScoreSum(c, event_id) ==
    LET K == CategoriesScored(c, event_id)
    IN  SumOver(K, [ k \in K |->
            RoundToTwoDecimals(
                SumOver(PairRows(c, k), [ i \in PairRows(c, k) |-> scores[i].score ])
                    * categories[k].weight) ])

PerCategoryMaxSum(c, event_id) ==
    LET K == CategoriesScored(c, event_id)
    IN  SumOver(K, [ k \in K |->
            RoundToTwoDecimals(
                SumOver(PairRows(c, k), [ i \in PairRows(c, k) |-> scores[i].max ])
                    * categories[k].weight) ])

\* C2: every entry's final_score is 100 * S / M with one round2(total * weight)
\* term per Category of the event in which the candidate has scores, for every
\* weight assignment (stated for the candidates whose M is not zero).
C2_OneTermPerCategory ==
    IsFinalOk(response) =>
        \A n \in DOMAIN response.body :
            LET c == response.body[n].candidate_id
                S == PerCategoryScoreSum(c, response.event_id)
                M == PerCategoryMaxSum(c, response.event_id)
            IN  M # 0 => response.body[n].final_score = Quotient(S, M)

\* C3: a successful response never holds an entry whose final_score is NaN or
\* infinite (a zero weighted_max sum is answered with an error instead).
C3_NoNonFiniteFinalScore ==
    IsFinalOk(response) =>
        \A n \in DOMAIN response.body : response.body[n].final_score.kind = "finite"

\* C4: two successful calls with the same event id on the same unchanged store
\* (here: one directly after the other) return the same sequence of entries in
\* the same order.
C4_SameSnapshotSameResult ==
    [][ ( /\ IsFinalOk(response)
          /\ IsFinalOk(response')
          /\ response'.event_id = response.event_id
          /\ scores' = scores /\ categories' = categories /\ candidates' = candidates )
        => response'.body = response.body ]_vars

----------------------------------------------------------------------------
(* generate_score_spreadsheet, write_scores *)

\* SELECT * FROM candidates ORDER BY CASE WHEN gender = 1 THEN 1 ELSE 2 END,
\* candidate_number
GenderRank(c) == IF candidates[c].gender = 1 THEN 1 ELSE 2

CandidateBefore(a, b) ==
    \/ GenderRank(a) < GenderRank(b)
    \/ /\ GenderRank(a) = GenderRank(b)
       /\ \/ candidates[a].candidate_number < candidates[b].candidate_number
          \/ candidates[a].candidate_number = candidates[b].candidate_number /\ a <= b

RECURSIVE OrderedCandidates(_)
OrderedCandidates(C) ==
    IF C = {} THEN << >>
    ELSE LET c == CHOOSE x \in C : \A y \in C : CandidateBefore(x, y)
         IN  <<c>> \o OrderedCandidates(C \ {c})

IsMale(c) == candidates[c].gender = 1
IsFemale(c) == candidates[c].gender # 1

\* candidates.iter().partition(|candidate| candidate.gender == 1)
male_candidates == SelectSeq(OrderedCandidates(DOMAIN candidates), IsMale)
female_candidates == SelectSeq(OrderedCandidates(DOMAIN candidates), IsFemale)

RECURSIVE Ascending(_)
Ascending(S) ==
    IF S = {} THEN << >>
    ELSE LET x == CHOOSE y \in S : \A z \in S : y <= z
         IN  <<x>> \o Ascending(S \ {x})

EventJudgesActiveOnly(event_id) ==
    Ascending({ j \in DOMAIN judges :
                  judges[j].event_id = event_id /\ judges[j].is_active })

\* SELECT * FROM judges WHERE event_id = ($1)
EventJudges(event_id) ==
    Ascending({ j \in DOMAIN judges : judges[j].event_id = event_id })

\* format!("{:.2}", num / den): the value in hundredths, or NaN for 0 / 0.
FormatTwoDecimals(num, den) ==
    IF den = 0
    THEN IF num = 0 THEN [ kind |-> "NaN" ]
         ELSE [ kind |-> "inf", sign |-> IF num > 0 THEN 1 ELSE -1 ]
    ELSE [ kind |-> "finite",
           hundredths |-> IF num >= 0
                          THEN (2 * 100 * num + den) \div (2 * den)
                          ELSE -((2 * 100 * (-num) + den) \div (2 * den)) ]

\* Variant: the per-judge query without the category_id = ($2) condition.
total_score_for_judge_any_category(candidate_id, category_id, judge_id) ==
    LET rows == { i \in DOMAIN scores :
                    /\ scores[i].candidate_id = candidate_id
                    /\ scores[i].judge_id = judge_id }
    IN  SumOver(rows, [ i \in rows |-> scores[i].score ])

\* SELECT * FROM scores WHERE candidate_id = ($1) AND category_id = ($2)
\*   AND judge_id = ($3), folded: acc + score.score
total_score_for_judge(candidate_id, category_id, judge_id) ==
    LET rows == { i \in DOMAIN scores :
                    /\ scores[i].candidate_id = candidate_id
                    /\ scores[i].category_id = category_id
                    /\ scores[i].judge_id = judge_id }
    IN  SumOver(rows, [ i \in rows |-> scores[i].score ])

Cell(block, kind, row, col, val) ==
    [ block |-> block, kind |-> kind, row |-> row, col |-> col, val |-> val ]

\* write_scores: the cells of one candidate's row
CandidateCells(block, c, judge_ids, row) ==
    LET category == categories[block]
        J == Len(judge_ids)
        total_score == SumOver(DOMAIN judge_ids,
                          [ n \in DOMAIN judge_ids |->
                              total_score_for_judge(c, block, judge_ids[n]) ])
    IN  { Cell(block, "candidate_number", row, 0, candidates[c].candidate_number),
          Cell(block, "candidate_name", row, 1,
               FormatName(candidates[c].last_name, candidates[c].first_name,
                          candidates[c].middle_name)),
          Cell(block, "average_score", row, 2 + J, FormatTwoDecimals(total_score, J)),
          Cell(block, "score_in_percentage", row, 3 + J,
               FormatTwoDecimals(total_score * category.weight, J * WeightScale)) }
        \cup
        { Cell(block, "judge_total", row, 2 + (n - 1),
               [ judge_id |-> judge_ids[n],
                 total |-> total_score_for_judge(c, block, judge_ids[n]) ])
            : n \in DOMAIN judge_ids }

\* write_scores(pool, worksheet, candidates, category, judges, row, 0)
write_scores(block, cands, judge_ids, row) ==
    UNION { CandidateCells(block, cands[n], judge_ids, row + (n - 1)) : n \in DOMAIN cands }

\* The cells generate_score_spreadsheet writes for one category at row_offset.
BlockCells(block, row_offset) ==
    LET category == categories[block]
        judge_ids == EventJudges(category.event_id)
        J == Len(judge_ids)
    IN  { Cell(block, "header", row_offset, 0, category.name),
          Cell(block, "title", 1 + row_offset, 0, "Candidate #"),
          Cell(block, "title", 1 + row_offset, 1, "Name"),
          Cell(block, "title", 1 + row_offset, J + 2, "Average Score"),
          Cell(block, "weight_title", 1 + row_offset, J + 3, category.weight),
          Cell(block, "MALE", row_offset + 2, 0, "MALE"),
          Cell(block, "FEMALE", row_offset + 3 + Len(male_candidates), 0, "FEMALE") }
        \cup
        { Cell(block, "judge_name", 1 + row_offset, (n - 1) + 2,
               [ judge_id |-> judge_ids[n], name |-> judges[judge_ids[n]].name ])
            : n \in DOMAIN judge_ids }
        \cup write_scores(block, male_candidates, judge_ids, 3 + row_offset)
        \cup write_scores(block, female_candidates, judge_ids,
                          row_offset + 4 + Len(male_candidates))

\* Variant: row_offset advanced by the number of male candidates + 5.
NextRowOffsetMalesOnly(row_offset) == row_offset + Len(male_candidates) + 5

\* Variant: row_offset advanced by candidates.len() + 3.
NextRowOffsetGapThree(row_offset) == row_offset + Len(candidates) + 3

\* row_offset += candidates.len() as u32 + 5
NextRowOffset(row_offset) == row_offset + Len(candidates) + 5

RECURSIVE RowOffsets(_)
\* row_offset at the start of the loop body for category index `block` (1-based)
RowOffsets(block) ==
    IF block = 1 THEN 0 ELSE NextRowOffset(RowOffsets(block - 1))

\* for (category_idx, category) in categories.iter().enumerate() { ... }
SheetCells == UNION { BlockCells(k, RowOffsets(k)) : k \in DOMAIN categories }

\* The store reads of one render, in the order the handler issues them.
ScoreReads(block, cands, judge_ids) ==
    [ n \in 1..(Len(cands) * Len(judge_ids)) |-> "scores" ]

RECURSIVE RenderReads(_)
RenderReads(block) ==
    IF block > Len(categories) THEN << >>
    ELSE LET judge_ids == EventJudges(categories[block].event_id)
         IN  <<"judges">>
             \o ScoreReads(block, male_candidates, judge_ids)
             \o ScoreReads(block, female_candidates, judge_ids)
             \o RenderReads(block + 1)

SheetReads == <<"categories", "candidates">> \o RenderReads(1)

\* Variant: a failed per-judge scores read is swallowed.
PropagatesUnlessScores(read) == read # "scores"

\* Every store read of the render ends in `.await?`: its error is returned.
Propagates(read) == read \in {"categories", "candidates", "judges", "scores"}

\* failAt = 0: every read succeeds; failAt = n: the n-th read fails.
generate_score_spreadsheet(failAt) ==
    /\ failAt \in 0..Len(SheetReads)
    /\ response' =
         IF failAt # 0 /\ Propagates(SheetReads[failAt])
         THEN [ op |-> "generate_score_spreadsheet", result |-> "Err",
                failed_read |-> failAt, error |-> SheetReads[failAt] ]
         ELSE [ op |-> "generate_score_spreadsheet", result |-> "Ok",
                failed_read |-> failAt, body |-> SheetCells ]
    /\ UNCHANGED <<categories, criterias, judges, candidates, scores, now>>

----------------------------------------------------------------------------
(* Specification of the report grid *)

\* Scores entered while a report is rendered: candidate 1 in the first category.
GridPayloads ==
    { p \in CreateScore :
        p.max = 2 /\ p.score # 0 /\ p.candidate_id = 1 /\ p.category_id = 1 }

MaxReads == 2 + 2 * (1 + 2 * NumCandidates)

InitGrid ==
    /\ categories = << CategoryRow(1, 500, 1), CategoryRow(2, 333, 2) >>
    /\ criterias = << CriteriaRow(1) >>
    /\ \E a2 \in BOOLEAN, e2 \in Events :
          judges = << JudgeRow(1, TRUE, 1), JudgeRow(2, a2, e2) >>
    /\ \E g \in [ 1..NumCandidates -> {1, 2} ] :
          candidates = [ i \in 1..NumCandidates |-> CandidateRow(i, g[i]) ]
    /\ scores = << >>
    /\ now = 0
    /\ response = None

NextGrid ==
    \/ \E p \in GridPayloads, ok \in BOOLEAN : submit_score(p, ok)
    \/ \E n \in 0..MaxReads : generate_score_spreadsheet(n)

SpecGrid == InitGrid /\ [][NextGrid]_vars

IsSheetOk(r) == r.op = "generate_score_spreadsheet" /\ r.result = "Ok"

MaleCount == Cardinality({ c \in DOMAIN candidates : candidates[c].gender = 1 })
FemaleCount == Cardinality({ c \in DOMAIN candidates : candidates[c].gender # 1 })

SheetBlocks(r) == { c.block : c \in r.body }
BlockRows(r, k) == { c.row : c \in { d \in r.body : d.block = k } }
HeaderRow(r, k) == CHOOSE x \in { c.row : c \in { d \in r.body : d.block = k /\ d.kind = "header" } } : TRUE
LastRow(r, k) == CHOOSE x \in BlockRows(r, k) : \A y \in BlockRows(r, k) : y <= x

\* C5 (as claimed): a Category block with m male and f female candidates
\* occupies exactly m + f + 3 rows, and the next block's header row is 5 rows
\* after the last row of this block.
C5_BlockHeightPlusThree ==
    IsSheetOk(response) =>
        \A k \in SheetBlocks(response) :
            /\ Cardinality(BlockRows(response, k)) = MaleCount + FemaleCount + 3
            /\ (k + 1) \in SheetBlocks(response) =>
                  HeaderRow(response, k + 1) = LastRow(response, k) + 5

\* C5 (amended): a Category block occupies exactly the m + f + 4 consecutive
\* rows starting at its header row (header, column titles, MALE, m male rows,
\* FEMALE, f female rows), and the next block's header row is m + f + 5 rows
\* after this block's header row, i.e. 2 rows after this block's last row.
C5_BlockHeightPlusFour ==
    IsSheetOk(response) =>
        \A k \in SheetBlocks(response) :
            /\ BlockRows(response, k) =
                  HeaderRow(response, k)..(HeaderRow(response, k) + MaleCount + FemaleCount + 3)
            /\ Cardinality(BlockRows(response, k)) = MaleCount + FemaleCount + 4
            /\ (k + 1) \in SheetBlocks(response) =>
                  /\ HeaderRow(response, k + 1) = LastRow(response, k) + 2
                  /\ HeaderRow(response, k + 1) =
                        HeaderRow(response, k) + MaleCount + FemaleCount + 5

\* A sheet with two Category blocks and candidates of both genders.
C5_Witness ==
    /\ IsSheetOk(response)
    /\ SheetBlocks(response) = {1, 2}
    /\ MaleCount >= 1
    /\ FemaleCount >= 1
    /\ HeaderRow(response, 2) > 0

JudgeColumns(r, k) ==
    { << c.col, c.val.judge_id >> : c \in { d \in r.body : d.block = k /\ d.kind = "judge_name" } }

TitleColumn(r, k, kind, val) ==
    { c.col : c \in { d \in r.body : d.block = k /\ d.kind = kind /\ d.val = val } }

\* C6: the judge columns of a Category block are exactly the non-excluded
\* judges of the category's Event, in store order, at columns 2..2+J-1, with
\* "Average Score" at column 2+J and the weight column at 3+J.
C6_ActiveJudgeColumns ==
    IsSheetOk(response) =>
        \A k \in SheetBlocks(response) :
            LET active == EventJudgesActiveOnly(categories[k].event_id)
                J == Len(active)
            IN  /\ JudgeColumns(response, k) = { << 2 + (n - 1), active[n] >> : n \in DOMAIN active }
                /\ TitleColumn(response, k, "title", "Average Score") = { 2 + J }
                /\ TitleColumn(response, k, "weight_title", categories[k].weight) = { 3 + J }

\* C8: a render in which some store read failed returns an error and no sheet
\* buffer; a buffer is returned only when every read succeeded.
C8_NoPartialSheet ==
    response.op = "generate_score_spreadsheet" =>
        /\ response.failed_read # 0 =>
              response.result = "Err" /\ "body" \notin DOMAIN response
        /\ response.result = "Ok" =>
              response.failed_read = 0 /\ "body" \in DOMAIN response

\* The last per-judge score read of the last Category block failed, after
\* every earlier read of the render had succeeded.
C8_Witness ==
    /\ response.op = "generate_score_spreadsheet"
    /\ response.result = "Err"
    /\ response.error = "scores"
    /\ response.failed_read = Len(SheetReads)
    /\ response.failed_read > 4

----------------------------------------------------------------------------
(* generate_csv *)

EventName(event_id) == IF event_id = 1 THEN "Event 1" ELSE "Event 2"

\* let headers = [ ... ]
headers ==
    << "Event", "Category", "Criteria", "Candidate First Name",
       "Candidate Middle Name", "Candidate Last Name", "Judge", "Score", "Max",
       "Weight" >>

\* query_as::<_, Category>("SELECT id, name, weight FROM categories"): Category
\* derives FromRow with a required event_id field (category.rs:7-14) and the
\* query returns no event_id column, so decoding the first row fails; the fetch
\* succeeds only when the table is empty or, of course, fails when the store does.
CsvCategories(dbOk) ==
    IF ~dbOk \/ Len(categories) > 0
    THEN [ result |-> "Err" ]
    ELSE [ result |-> "Ok", rows |-> << >> ]

\* SELECT id, name FROM criterias WHERE category_id = $1
CategoryCriterias(category_id) ==
    Ascending({ c \in DOMAIN criterias : criterias[c].category_id = category_id })

\* SELECT ... FROM scores s JOIN judges j .. JOIN candidates can ..
\*   JOIN categories cat .. JOIN events e ..
\*   WHERE s.category_id = ($1) AND s.criteria_id = ($2)
CriteriaScores(category_id, criteria_id) ==
    Ascending({ i \in DOMAIN scores :
                  /\ scores[i].category_id = category_id
                  /\ scores[i].criteria_id = criteria_id
                  /\ scores[i].judge_id \in DOMAIN judges
                  /\ scores[i].candidate_id \in DOMAIN candidates
                  /\ scores[i].category_id \in DOMAIN categories })

\* csv_writer.write_record(vec![ ... ]) for one score row
CsvRecord(category_id, criteria_id, i) ==
    << EventName(categories[scores[i].category_id].event_id),
       categories[category_id].name,
       criterias[criteria_id].name,
       candidates[scores[i].candidate_id].first_name,
       candidates[scores[i].candidate_id].middle_name,
       candidates[scores[i].candidate_id].last_name,
       judges[scores[i].judge_id].name,
       scores[i].score,
       scores[i].max,
       categories[scores[i].category_id].weight >>

RECURSIVE CriteriaRecords(_, _, _)
\* for score in scores.iter() { ... }
CriteriaRecords(category_id, criteria_id, ids) ==
    IF ids = << >> THEN << >>
    ELSE << [ score_id |-> Head(ids),
              record |-> CsvRecord(category_id, criteria_id, Head(ids)) ] >>
         \o CriteriaRecords(category_id, criteria_id, Tail(ids))

RECURSIVE CategoryRecords(_, _)
\* for criteria in criterias.iter() { ... }
CategoryRecords(category_id, criteria_ids) ==
    IF criteria_ids = << >> THEN << >>
    ELSE CriteriaRecords(category_id, Head(criteria_ids),
                         CriteriaScores(category_id, Head(criteria_ids)))
         \o CategoryRecords(category_id, Tail(criteria_ids))

RECURSIVE CsvRecords(_)
\* for category in categories.iter() { ... }
CsvRecords(category_ids) ==
    IF category_ids = << >> THEN << >>
    ELSE CategoryRecords(Head(category_ids), CategoryCriterias(Head(category_ids)))
         \o CsvRecords(Tail(category_ids))

generate_csv(dbOk) ==
    /\ response' =
         IF CsvCategories(dbOk).result = "Ok"
         THEN [ op |-> "generate_csv", status |-> 200, db_ok |-> dbOk,
                header |-> headers,
                records |-> CsvRecords(CsvCategories(dbOk).rows) ]
         ELSE [ op |-> "generate_csv", status |-> 500, db_ok |-> dbOk,
                error |-> "Failed to get categories" ]
    /\ UNCHANGED <<categories, criterias, judges, candidates, scores, now>>

----------------------------------------------------------------------------
(* Specification of the flat export *)

InitCsv ==
    /\ categories \in { << >>,
                        << CategoryRow(1, 500, 1) >>,
                        << CategoryRow(1, 500, 1), CategoryRow(2, 333, 2) >> }
    /\ criterias = [ i \in DOMAIN categories |-> CriteriaRow(i) ]
    /\ judges = << JudgeRow(1, TRUE, 1) >>
    /\ candidates = CandidateTable
    /\ scores = << >>
    /\ now = 0
    /\ response = None

NextCsv ==
    \/ \E p \in CreateScore, ok \in BOOLEAN : submit_score(p, ok)
    \/ \E ok \in BOOLEAN : generate_csv(ok)

SpecCsv == InitCsv /\ [][NextCsv]_vars

\* C7: when the store answers every read, the export is one header row of
\* exactly the 10 named columns followed by exactly one data record per stored
\* Score row: none dropped, none emitted twice.
C7_OneRecordPerScore ==
    (response.op = "generate_csv" /\ response.db_ok) =>
        /\ response.status = 200
        /\ response.header = headers
        /\ Len(response.header) = 10
        /\ Len(response.records) = Len(scores)
        /\ \A i \in DOMAIN scores :
              Cardinality({ n \in DOMAIN response.records :
                              response.records[n].score_id = i }) = 1

----------------------------------------------------------------------------
(* Specification of aggregation with an excluded judge *)

\* Scores out of 2, by either judge, in the one category of event 1.
JudgePayloads == { p \in CreateScore : p.max = 2 /\ p.score # 0 }

InitAggJudges ==
    /\ categories = << CategoryRow(1, 500, 1) >>
    /\ criterias = << CriteriaRow(1) >>
    /\ \E a2 \in BOOLEAN : judges = << JudgeRow(1, TRUE, 1), JudgeRow(2, a2, 1) >>
    /\ candidates = CandidateTable
    /\ scores = << >>
    /\ now = 0
    /\ response = None

NextAggJudges ==
    \/ \E p \in JudgePayloads, ok \in BOOLEAN : submit_score(p, ok)
    \/ \E e \in Events, ok \in BOOLEAN : get_candidate_final_scores(e, ok)

SpecAggJudges == InitAggJudges /\ [][NextAggJudges]_vars

\* The Score rows of the event that were not submitted by an excluded judge.
NonExcludedScores(event_id) ==
    { i \in DOMAIN scores :
        /\ categories[scores[i].category_id].event_id = event_id
        /\ judges[scores[i].judge_id].is_active }

\* The final score of candidate c over the rows in `rows`, one weighted term
\* per weight.
FinalScoreOver(rows, c) ==
    LET mine == { i \in rows : scores[i].candidate_id = c }
        ws == { categories[scores[i].category_id].weight : i \in mine }
        of(w) == { i \in mine : categories[scores[i].category_id].weight = w }
        S == SumOver(ws, [ w \in ws |->
                 RoundToTwoDecimals(w * SumOver(of(w), [ i \in of(w) |-> scores[i].score ])) ])
        M == SumOver(ws, [ w \in ws |->
                 RoundToTwoDecimals(w * SumOver(of(w), [ i \in of(w) |-> scores[i].max ])) ])
    IN  Quotient(S, M)

\* C11: scores submitted by a judge whose exclusion flag is set do not
\* contribute: the final scores equal those computed on the same store with
\* every excluded judge's Score rows removed.
C11_ExcludedJudgesIgnored ==
    IsFinalOk(response) =>
        { << response.body[n].candidate_id, response.body[n].final_score >> :
            n \in DOMAIN response.body }
          = { << c, FinalScoreOver(NonExcludedScores(response.event_id), c) >> :
                c \in { scores[i].candidate_id : i \in NonExcludedScores(response.event_id) } }

----------------------------------------------------------------------------
(* Referential consistency of stored scores *)

\* C12: after any sequence of submit_score calls, every stored Score's
\* (criteria_id, category_id, judge_id) triple is consistent: its Criterion
\* belongs to its Category, and its Judge belongs to that Category's Event.
C12_ConsistentTriple ==
    \A i \in DOMAIN scores :
        /\ criterias[scores[i].criteria_id].category_id = scores[i].category_id
        /\ judges[scores[i].judge_id].event_id
              = categories[scores[i].category_id].event_id

----------------------------------------------------------------------------
(* Specification of the three reports over one store *)

InitReads ==
    /\ \/ categories = << >> /\ criterias = << >>
       \/ /\ categories = << CategoryRow(1, 500, 1), CategoryRow(2, 333, 2) >>
          /\ criterias = << CriteriaRow(1) >>
    /\ judges = << JudgeRow(1, TRUE, 1), JudgeRow(2, FALSE, 1) >>
    /\ candidates = CandidateTable
    /\ scores = << >>
    /\ now = 0
    /\ response = None

NextReads ==
    \/ \E p \in GridPayloads, ok \in BOOLEAN : submit_score(p, ok)
    \/ \E e \in Events, ok \in BOOLEAN : get_candidate_final_scores(e, ok)
    \/ \E n \in 0..MaxReads : generate_score_spreadsheet(n)
    \/ \E ok \in BOOLEAN : generate_csv(ok)

SpecReads == InitReads /\ [][NextReads]_vars

ReadHandlers == { "get_candidate_final_scores", "generate_score_spreadsheet", "generate_csv" }

\* C13: get_candidate_final_scores, generate_score_spreadsheet and generate_csv
\* are read-only: every invocation, successful or failed, leaves the Score,
\* Category, Criterion, Judge and Candidate rows of the store as they were.
C13_ReadOnly ==
    [][ response'.op \in ReadHandlers =>
          UNCHANGED <<scores, categories, criterias, judges, candidates>> ]_vars

\* A final-score read has succeeded on a store that holds Score rows of the
\* event it aggregated.
C13_Witness ==
    /\ IsFinalOk(response)
    /\ Len(response.body) > 0
    /\ Len(scores) = 2

----------------------------------------------------------------------------
(* Specification of the candidate rows: two categories and two judges of one event *)

\* Scores of candidate 1, out of 2, in either category and by either judge.
CellPayloads == { p \in CreateScore : p.max = 2 /\ p.score # 0 /\ p.candidate_id = 1 }

InitCells ==
    /\ categories = << CategoryRow(1, 333, 1), CategoryRow(2, 500, 1) >>
    /\ criterias = << CriteriaRow(1) >>
    /\ judges = << JudgeRow(1, TRUE, 1), JudgeRow(2, TRUE, 1) >>
    /\ candidates = CandidateTable
    /\ scores = << >>
    /\ now = 0
    /\ response = None

NextCells ==
    \/ \E p \in CellPayloads, ok \in BOOLEAN : submit_score(p, ok)
    \/ \E n \in 0..MaxReads : generate_score_spreadsheet(n)

SpecCells == InitCells /\ [][NextCells]_vars

\* The cells of kind `kind` in the sheet row `row` of block k.
RowCells(r, k, row, kind) ==
    { d \in r.body : d.block = k /\ d.row = row /\ d.kind = kind }

\* The sum of the score fields of the Score rows matching (c, k, j).
MatchingScoreSum(c, k, j) ==
    LET rows == { i \in DOMAIN scores :
                    scores[i].candidate_id = c /\ scores[i].category_id = k
                      /\ scores[i].judge_id = j }
    IN  SumOver(rows, [ i \in rows |-> scores[i].score ])

\* val shows num / den to two decimals: no hundredth is nearer to num / den.
ShowsTwoDecimals(val, num, den) ==
    /\ val.kind = "finite"
    /\ 2 * Abs(val.hundredths * den - 100 * num) <= den

\* C14: in each candidate row of a Category block, the cell for judge j holds
\* the sum of the score fields of all Score rows matching (that candidate, that
\* category, judge j), 0 when there are none; the next cell shows, to two
\* decimals, average_score = (sum of those per-judge subtotals) / judge_count,
\* and the last cell average_score * category.weight.
C14_CandidateRowCells ==
    IsSheetOk(response) =>
        \A k \in DOMAIN categories, c \in DOMAIN candidates :
            \A nc \in { d \in response.body : d.block = k /\ d.kind = "candidate_number"
                                                /\ d.val = candidates[c].candidate_number } :
                LET totals == RowCells(response, k, nc.row, "judge_total")
                    J == Cardinality(totals)
                    sum == SumOver(totals, [ d \in totals |-> d.val.total ])
                IN  /\ \A d \in totals : d.val.total = MatchingScoreSum(c, k, d.val.judge_id)
                    /\ J > 0 =>
                         /\ \E a \in RowCells(response, k, nc.row, "average_score") :
                               a.col = 2 + J /\ ShowsTwoDecimals(a.val, sum, J)
                         /\ \E p \in RowCells(response, k, nc.row, "score_in_percentage") :
                               /\ p.col = 3 + J
                               /\ ShowsTwoDecimals(p.val, sum * categories[k].weight,
                                                   J * WeightScale)

\* Candidate 1's row of the first block: a judge cell holds the sum 3 of two
\* Score rows (1 and 2), and 1.5 * 0.333 is shown as 0.50.
C14_Witness ==
    /\ IsSheetOk(response)
    /\ \E d \in response.body :
          /\ d.block = 1 /\ d.kind = "judge_total" /\ d.val.total = 3
          /\ \E p \in RowCells(response, 1, d.row, "score_in_percentage") :
                p.val = [ kind |-> "finite", hundredths |-> 50 ]

----------------------------------------------------------------------------
(* Specification of aggregation over scores within their maximum *)

\* Scores of candidate 1 with 0 <= score <= max.
RangePayloads == { p \in CreateScore : p.score <= p.max /\ p.candidate_id = 1 }

NextAggRange ==
    \/ \E p \in RangePayloads, ok \in BOOLEAN : submit_score(p, ok)
    \/ \E e \in Events, ok \in BOOLEAN : get_candidate_final_scores(e, ok)

SpecAggRange == InitAgg /\ [][NextAggRange]_vars

\* The Score rows of candidate c in the categories of the event.
ContributingScores(c, event_id) ==
    { i \in DOMAIN scores :
        /\ scores[i].candidate_id = c
        /\ categories[scores[i].category_id].event_id = event_id }

\* M: the sum over the weights w of the two-decimal rounding of
\* w * (sum of max over the rows of weight w).
WeightedMaxSum(rows) ==
    LET ws == { categories[scores[i].category_id].weight : i \in rows }
        of(w) == { i \in rows : categories[scores[i].category_id].weight = w }
    IN  SumOver(ws, [ w \in ws |->
            RoundToTwoDecimals(w * SumOver(of(w), [ i \in of(w) |-> scores[i].max ])) ])

\* C15: when every contributing Score satisfies 0 <= score <= max, every
\* category weight is > 0 and the candidate's weighted_max sum M is > 0, the
\* final_score returned lies in [0, 100].
C15_FinalScoreInRange ==
    IsFinalOk(response) =>
        \A n \in DOMAIN response.body :
            LET rows == ContributingScores(response.body[n].candidate_id, response.event_id)
            IN  ( /\ \A i \in rows :
                        /\ 0 <= scores[i].score /\ scores[i].score <= scores[i].max
                        /\ categories[scores[i].category_id].weight > 0
                  /\ WeightedMaxSum(rows) > 0 )
                => /\ response.body[n].final_score.kind = "finite"
                   /\ 0 <= response.body[n].final_score.num
                   /\ response.body[n].final_score.num
                        <= 100 * response.body[n].final_score.den

\* Candidate 1 has 1 of 2 in a category of weight 0.333: S = 0.33, M = 0.67
\* after rounding, and the final score is 3300 / 67.
C15_Witness ==
    /\ IsFinalOk(response)
    /\ \E n \in DOMAIN response.body :
          response.body[n].final_score = [ kind |-> "finite", num |-> 3300, den |-> 67 ]

----------------------------------------------------------------------------
(* Row use of the report grid *)

\* What a cell's row is used for: the header, the title row, a marker, or the
\* row of one candidate.
RowUse(d) ==
    IF d.kind \in {"title", "weight_title", "judge_name"} THEN "title"
    ELSE IF d.kind \in {"header", "MALE", "FEMALE"} THEN d.kind
    ELSE "candidate"

\* C16: no sheet row is used twice: within a block the header, title row, MALE
\* marker, male rows, FEMALE marker and female rows have pairwise distinct row
\* indices, and the rows of one Category block never overlap those of another.
C16_NoRowUsedTwice ==
    IsSheetOk(response) =>
        /\ \A c, d \in response.body :
              c.row = d.row => c.block = d.block /\ RowUse(c) = RowUse(d)
        /\ \A c, d \in response.body :
              (c.row = d.row /\ c.kind = "candidate_number" /\ d.kind = "candidate_number")
                 => c = d
        /\ \A k \in SheetBlocks(response) :
              Cardinality(BlockRows(response, k)) = 4 + Len(candidates)

\* Two blocks are rendered and the candidates are all male or all female, so
\* that one marker is directly followed by the other marker or by the gap.
C16_Witness ==
    /\ IsSheetOk(response)
    /\ Cardinality(SheetBlocks(response)) = 2
    /\ MaleCount = 0 \/ FemaleCount = 0
    /\ Len(scores) > 0

----------------------------------------------------------------------------
(* update_category *)

UpdateCategory == [ category_id : 1..(Len(categories) + 1) ]

\* Variant: the CASE applied to the rows of the event only, as under
\* WHERE event_id = ($2).
UpdatedCategoriesOfEvent(event_id, payload) ==
    [ k \in DOMAIN categories |->
        IF categories[k].event_id = event_id
        THEN [ categories[k] EXCEPT !.is_active = (k = payload.category_id) ]
        ELSE categories[k] ]

\* UPDATE categories SET is_active = CASE WHEN id = ($1) and event_id = ($2)
\*   THEN TRUE ELSE FALSE END: no WHERE, every row is written.
UpdatedCategories(event_id, payload) ==
    [ k \in DOMAIN categories |->
        [ categories[k] EXCEPT
            !.is_active = (k = payload.category_id
                             /\ categories[k].event_id = event_id) ] ]

\* The Category struct decoded from one RETURNING * row.
ReturnedCategory(k) ==
    [ id |-> k, name |-> categories[k].name, weight |-> categories[k].weight,
      event_id |-> categories[k].event_id ]

\* fetch_one: the first row the UPDATE returns (in no guaranteed order), or
\* RowNotFound when the table is empty.
update_category(event_id, payload, dbOk) ==
    /\ IF dbOk /\ Len(categories) > 0
       THEN /\ categories' = UpdatedCategories(event_id, payload)
            /\ \E k \in DOMAIN categories :
                  response' = [ op |-> "update_category", status |-> 200,
                                event_id |-> event_id,
                                category_id |-> payload.category_id,
                                body |-> ReturnedCategory(k) ]
       ELSE /\ UNCHANGED categories
            /\ response' = [ op |-> "update_category", status |-> 500,
                             event_id |-> event_id,
                             category_id |-> payload.category_id ]
    /\ UNCHANGED <<criterias, judges, candidates, scores, now>>

----------------------------------------------------------------------------
(* Specification of category activation: three categories over two events,
   with any flags to start from *)

InitCategory ==
    /\ \E e2, e3 \in Events, a \in [1..3 -> BOOLEAN] :
          categories = << [ CategoryRow(1, 500, 1) EXCEPT !.is_active = a[1] ],
                          [ CategoryRow(2, 333, e2) EXCEPT !.is_active = a[2] ],
                          [ CategoryRow(3, 500, e3) EXCEPT !.is_active = a[3] ] >>
    /\ criterias = << CriteriaRow(1) >>
    /\ judges = << JudgeRow(1, TRUE, 1) >>
    /\ candidates = CandidateTable
    /\ scores = << >>
    /\ now = 0
    /\ response = None

NextCategory ==
    \E e \in Events, p \in UpdateCategory, ok \in BOOLEAN : update_category(e, p, ok)

SpecCategory == InitCategory /\ [][NextCategory]_vars

IsUpdateCategoryOk(r) == r.op = "update_category" /\ r.status = 200

ActiveCategories == { k \in DOMAIN categories : categories[k].is_active }

\* C17: after an update_category(event_id, category_id) call that went through,
\* at most one category in the whole store, across all events, has
\* is_active = TRUE, namely the one whose id is category_id and whose event is
\* event_id; every other category is inactive, and if category_id does not
\* belong to event_id then no category is active.
C17_SingleActiveCategory ==
    IsUpdateCategoryOk(response) =>
        /\ Cardinality(ActiveCategories) <= 1
        /\ ActiveCategories
             = { k \in DOMAIN categories :
                   k = response.category_id /\ categories[k].event_id = response.event_id }
        /\ ( response.category_id \notin DOMAIN categories
             \/ categories[response.category_id].event_id # response.event_id )
              => ActiveCategories = {}

\* update_category(2, category 1) went through: category 1 is of event 1, so
\* no category is active, those of event 2 included.
C17_Witness ==
    /\ IsUpdateCategoryOk(response)
    /\ response.event_id = 2 /\ response.category_id = 1
    /\ \E k \in DOMAIN categories : categories[k].event_id = 2
    /\ ActiveCategories = {}

====
